---- MODULE Spec2Model ----
(***************************************************************************)
(* thesaurus-lookup: the sequential script (thesaurus.py) and the threaded *)
(* script (thesaurus_threads.py).  Both read the words file, look every    *)
(* line up on the site and hand the collected words_data to                *)
(* save_excel_file.  The two scripts are run one after the other on the    *)
(* same file and the same site.                                            *)
(*                                                                         *)
(* A string is a sequence of one-character strings, so that strip and      *)
(* re.split are computed character by character.                           *)
(***************************************************************************)
EXTENDS Integers, Sequences, FiniteSets, TLC

\* ---------------------------------------------------------------- constants
SYNONYMS_NUM == 3
SENTENCES_NUM == 1
WORDS_SEPARATORS == {",", "/"}

\* ------------------------------------------------------------------- bounds
MaxLineLen == 3      \* longest line of a one-line words file
MaxVariants == 6     \* most variants of a line "a,a,...,a"
MaxLines == 2        \* most lines of a several-line words file
NumWorkers == 2      \* worker threads of the ThreadPoolExecutor
MaxPageSyns == 4     \* most synonym divs on a page
MaxPageSents == 2    \* most <p> sentences on a page
MaxSplitLen == 5     \* longest line given to the word splitter alone

Whitespace == {" "}
Alphabet == {"a"} \cup WORDS_SEPARATORS \cup Whitespace

\* ------------------------------------------------------------ str.strip()
RECURSIVE LStrip(_)
LStrip(s) ==
    IF s # <<>> /\ Head(s) \in Whitespace THEN LStrip(Tail(s)) ELSE s

RECURSIVE RStrip(_)
RStrip(s) ==
    IF s # <<>> /\ s[Len(s)] \in Whitespace
    THEN RStrip(SubSeq(s, 1, Len(s) - 1))
    ELSE s

strip(s) == RStrip(LStrip(s))

\* --------------------------------------------- re.split("[,/]+", line)
\* Scans the line; a maximal run of separator characters is one match, the
\* text before the first match, between matches and after the last match
\* are the pieces (empty when a match is at either end of the line).
RECURSIVE SplitFrom(_, _, _, _, _)
SplitFrom(s, i, cur, pieces, inRun) ==
    IF i > Len(s) THEN Append(pieces, cur)
    ELSE IF s[i] \in WORDS_SEPARATORS
         THEN IF inRun
              THEN SplitFrom(s, i + 1, cur, pieces, TRUE)
              ELSE SplitFrom(s, i + 1, <<>>, Append(pieces, cur), TRUE)
         ELSE SplitFrom(s, i + 1, Append(cur, s[i]), pieces, FALSE)

re_split(line) == SplitFrom(line, 1, <<>>, <<>>, FALSE)

\* Mutant: the empty pieces are filtered out.
SplitWordsDropEmpty(line) ==
    LET pieces == SelectSeq(re_split(line), LAMBDA p : strip(p) # <<>>)
    IN  [k \in 1..Len(pieces) |-> strip(pieces[k])]

\* words = [word.strip() for word in re.split(pattern, line)]
SplitWords(line) ==
    LET pieces == re_split(line)
    IN  [k \in 1..Len(pieces) |-> strip(pieces[k])]

\* ------------------------------------------- round(SYNONYMS_NUM / len(words))
\* Python 3 round(): to the nearest integer, a tie to the even neighbour.
PyRound(num, den) ==
    LET q == num \div den
        r == num % den
    IN  IF 2 * r < den THEN q
        ELSE IF 2 * r > den THEN q + 1
        ELSE IF q % 2 = 0 THEN q ELSE q + 1

\* Mutant: integer division in place of round().
BudgetFloor(words) == SYNONYMS_NUM \div Len(words)

Budget(words) == PyRound(SYNONYMS_NUM, Len(words))

Min(a, b) == IF a < b THEN a ELSE b

\* ---------------------------------------------------------------- the site
\* What the site answers for one word: net = FALSE is a transport failure
\* (requests.get raises); otherwise a response with a status and a body.
\* The body holds synDivs synonym divs (div number `childless`, if any, has
\* no child element) and, when sentDiv, the sentences div with ps <p> tags.
Page(n, d, m) ==
    [net |-> TRUE, status |-> 200, synDivs |-> n, childless |-> 0,
     sentDiv |-> d, ps |-> m]
NetFail ==
    [net |-> FALSE, status |-> 0, synDivs |-> 0, childless |-> 0,
     sentDiv |-> FALSE, ps |-> 0]
NotFound ==
    [net |-> TRUE, status |-> 404, synDivs |-> 0, childless |-> 0,
     sentDiv |-> FALSE, ps |-> 0]
Malformed ==
    [net |-> TRUE, status |-> 200, synDivs |-> MaxPageSyns, childless |-> 1,
     sentDiv |-> TRUE, ps |-> MaxPageSents]

FullPage == Page(MaxPageSyns, TRUE, MaxPageSents)
EmptyPage == Page(0, FALSE, 0)

Pages ==
    { Page(n, TRUE, m) : n \in {0, 1, MaxPageSyns}, m \in {0, MaxPageSents} }
    \cup { Page(n, FALSE, 0) : n \in {0, 1, MaxPageSyns} }
    \cup {NetFail, NotFound, Malformed}

SitePages == {FullPage, EmptyPage, NetFail, NotFound}

\* The text of the k-th synonym / sentence on the page of `word`.
SynText(word, k) == [t |-> "synonym", w |-> word, k |-> k]
SentText(word, k) == [t |-> "sentence", w |-> word, k |-> k]


\* ------------------------------------------------------------- get_soup
\* requests.get raises on a transport failure; any response that arrives,
\* whatever its status, is parsed and returned.
get_soup_raises(page) == ~page.net
get_soup(page) == page

\* --------------------------------------------------------- get_synonyms
\* div.findChild() is None for a div without a child element, and .text of
\* None raises; only the first synonyms_num divs are visited.
get_synonyms_raises(soup, synonyms_num) ==
    soup.childless \in 1..Min(synonyms_num, soup.synDivs)

get_synonyms(word, soup, synonyms_num) ==
    [k \in 1..Min(synonyms_num, soup.synDivs) |-> SynText(word, k)]

\* -------------------------------------------------------- get_sentences
get_sentences(word, soup, sentences_num) ==
    IF ~soup.sentDiv THEN <<>>
    ELSE [k \in 1..Min(sentences_num, soup.ps) |-> SentText(word, k)]

\* ------------------------------------------------------ save_excel_file
\* The sheet is filled by cell writes in the order of the code; a later
\* write to a cell replaces the earlier value.
Cell(t, w, k) == [t |-> t, w |-> w, k |-> k]

HeaderWrites ==
    <<[col |-> 1, val |-> Cell("word", <<>>, 0)]>>
    \o [i \in 1..SYNONYMS_NUM |->
            [col |-> i + 1, val |-> Cell("synonym header", <<>>, i)]]
    \o [i \in 1..SENTENCES_NUM |->
            [col |-> i + 1 + SYNONYMS_NUM,
             val |-> Cell("sentence header", <<>>, i)]]

RowWrites(rec) ==
    <<[col |-> 1, val |-> Cell("line", rec[1], 0)]>>
    \o [i \in 1..Len(rec[2]) |-> [col |-> i + 1, val |-> rec[2][i]]]
    \o [i \in 1..Len(rec[3]) |->
            [col |-> i + 1 + SYNONYMS_NUM, val |-> rec[3][i]]]

RECURSIVE ApplyWrites(_, _)
ApplyWrites(row, ws) ==
    IF ws = <<>> THEN row
    ELSE ApplyWrites(
            [c \in DOMAIN row \cup {Head(ws).col} |->
                IF c = Head(ws).col THEN Head(ws).val ELSE row[c]],
            Tail(ws))

EmptyRow == [c \in {} |-> Cell("", <<>>, 0)]

save_excel_file(words_data) ==
    [args |-> words_data,
     rows |-> <<ApplyWrites(EmptyRow, HeaderWrites)>>
              \o [r \in 1..Len(words_data) |->
                     ApplyWrites(EmptyRow, RowWrites(words_data[r]))]]


\* ==================================================================== state
VARIABLES
    fileExists,   \* os.path.exists(WORDS_LIST_PATH)
    file,         \* the raw lines of the words file
    web,          \* the page the site serves for each word
    \* thesaurus.py
    pcS,          \* where main is: start, loop, done, returned, raised
    iS,           \* the file line the for loop is at
    curS,         \* the line being looked up: words, synonyms, sentences
    words_dataS,  \* words_data
    savedS,       \* the calls of save_excel_file
    msgS,         \* what main printed about the file
    \* thesaurus_threads.py
    pcT,          \* where main is: start, collect, unwind, done, returned, raised
    linesT,       \* lines
    tasks,        \* one future per line, with the locals of its look_up_line
    nextT,        \* the index of the future the results iterator waits for
    words_dataT,  \* words_data
    savedT,       \* the calls of save_excel_file
    msgT,         \* what main printed about the file
    completedT    \* history: the futures in the order they finished

varsS == <<pcS, iS, curS, words_dataS, savedS, msgS>>
varsT == <<pcT, linesT, tasks, nextT, words_dataT, savedT, msgT, completedT>>
input == <<fileExists, file, web>>
vars == <<fileExists, file, web, pcS, iS, curS, words_dataS, savedS, msgS,
          pcT, linesT, tasks, nextT, words_dataT, savedT, msgT, completedT>>

Workers == 1..NumWorkers

\* The locals of one look-up of a line; fetched and asked record the
\* arguments of the get_soup and get_synonyms calls made so far.
NewTask(line) ==
    [line |-> line, st |-> "queued", worker |-> 0, starts |-> 0,
     words |-> <<>>, j |-> 0, synonyms |-> <<>>, sentences |-> <<>>,
     fetched |-> <<>>, asked |-> <<>>]

Result(t) == <<t.line, t.synonyms, t.sentences>>

\* ------------------------------------------------------------------ inputs
SeqsUpTo(S, lo, hi) == UNION { [1..n -> S] : n \in lo..hi }

\* "a,a,...,a" with v variants
Repeated(v) == [i \in 1..(2 * v - 1) |-> IF i % 2 = 1 THEN "a" ELSE ","]

OneLineFiles ==
    { <<l>> : l \in SeqsUpTo(Alphabet, 1, MaxLineLen)
                    \cup { Repeated(v) : v \in 1..MaxVariants } }

FileLines == { <<"a">>, <<" ">>, <<"a", "/", "b">>, <<" ", "b">> }
ManyLineFiles == SeqsUpTo(FileLines, 0, MaxLines)

\* lines = [line.strip() for line in file if line.strip()]
RECURSIVE ReadLines(_)
ReadLines(f) ==
    IF f = <<>> THEN <<>>
    ELSE IF strip(Head(f)) # <<>>
         THEN <<strip(Head(f))>> \o ReadLines(Tail(f))
         ELSE ReadLines(Tail(f))

WordsOfFile(f) ==
    UNION { { SplitWords(l)[k] : k \in 1..Len(SplitWords(l)) }
            : l \in { ReadLines(f)[i] : i \in 1..Len(ReadLines(f)) } }

InitScripts ==
    /\ pcS = "start" /\ iS = 1 /\ curS = [NewTask(<<>>) EXCEPT !.st = "idle"]
    /\ words_dataS = <<>> /\ savedS = <<>> /\ msgS = "none"
    /\ pcT = "start" /\ linesT = <<>> /\ tasks = <<>> /\ nextT = 1
    /\ words_dataT = <<>> /\ savedT = <<>> /\ msgT = "none"
    /\ completedT = <<>>

Init ==
    /\ fileExists \in BOOLEAN
    /\ \/ /\ file \in OneLineFiles
          /\ web \in [WordsOfFile(file) -> Pages]
       \/ /\ file \in ManyLineFiles
          /\ web \in [WordsOfFile(file) -> SitePages]
    /\ InitScripts


\* ============================================================ thesaurus.py
\* Mutant: the sentences of every word are added, not only of the first.
SeqIterAllSentences(t) ==
    LET word == t.words[t.j + 1]
        page == web[word]
        n    == PyRound(SYNONYMS_NUM, Len(t.words))
        t1   == [t EXCEPT !.fetched = Append(@, word)]
        t2   == [t1 EXCEPT !.asked = Append(@, n)]
    IN  IF get_soup_raises(page) THEN [t1 EXCEPT !.st = "raised"]
        ELSE IF get_synonyms_raises(get_soup(page), n)
             THEN [t2 EXCEPT !.st = "raised"]
        ELSE [t2 EXCEPT
                !.synonyms = @ \o get_synonyms(word, get_soup(page), n),
                !.sentences =
                    @ \o get_sentences(word, get_soup(page), SENTENCES_NUM),
                !.j = @ + 1,
                !.st = IF t.j + 1 = Len(t.words) THEN "done" ELSE "running"]

\* One pass of the body of `for j, word in enumerate(words)` in main.
SeqIter(t) ==
    LET word == t.words[t.j + 1]
        page == web[word]
        n    == PyRound(SYNONYMS_NUM, Len(t.words))
        t1   == [t EXCEPT !.fetched = Append(@, word)]
        t2   == [t1 EXCEPT !.asked = Append(@, n)]
    IN  IF get_soup_raises(page) THEN [t1 EXCEPT !.st = "raised"]
        ELSE IF get_synonyms_raises(get_soup(page), n)
             THEN [t2 EXCEPT !.st = "raised"]
        ELSE [t2 EXCEPT
                !.synonyms = @ \o get_synonyms(word, get_soup(page), n),
                !.sentences =
                    IF t.j = 0
                    THEN @ \o get_sentences(word, get_soup(page), SENTENCES_NUM)
                    ELSE @,
                !.j = @ + 1,
                !.st = IF t.j + 1 = Len(t.words) THEN "done" ELSE "running"]

\* main up to the open of the file: return when the file is missing.
S_Start ==
    /\ pcS = "start"
    /\ IF ~fileExists
       THEN pcS' = "returned" /\ msgS' = "WORDS_LIST_PATH is incorrect!"
       ELSE pcS' = "loop" /\ msgS' = msgS
    /\ UNCHANGED <<iS, curS, words_dataS, savedS>>
    /\ UNCHANGED <<input, varsT>>

\* The next line of the file: strip it, skip it when empty, else split it.
S_NextLine ==
    /\ pcS = "loop"
    /\ curS.st # "running"
    /\ iS <= Len(file)
    /\ LET line == strip(file[iS])
       IN  IF line = <<>>
           THEN iS' = iS + 1 /\ curS' = curS
           ELSE /\ iS' = iS
                /\ curS' = [NewTask(line) EXCEPT !.st = "running",
                                                 !.starts = 1,
                                                 !.words = SplitWords(line)]
    /\ UNCHANGED <<pcS, words_dataS, savedS, msgS>>
    /\ UNCHANGED <<input, varsT>>

\* One word of the line: fetch, add its synonyms (and sentences); after the
\* last word append the record to words_data.
S_Word ==
    /\ pcS = "loop"
    /\ curS.st = "running"
    /\ LET t == SeqIter(curS)
       IN  /\ curS' = t
           /\ pcS' = IF t.st = "raised" THEN "raised" ELSE pcS
           /\ words_dataS' = IF t.st = "done"
                             THEN Append(words_dataS, Result(t))
                             ELSE words_dataS
           /\ iS' = IF t.st = "done" THEN iS + 1 ELSE iS
    /\ UNCHANGED <<savedS, msgS>>
    /\ UNCHANGED <<input, varsT>>

\* After the last line: save_excel_file(words_data).
S_Save ==
    /\ pcS = "loop"
    /\ curS.st # "running"
    /\ iS > Len(file)
    /\ savedS' = Append(savedS, save_excel_file(words_dataS))
    /\ pcS' = "done"
    /\ UNCHANGED <<iS, curS, words_dataS, msgS>>
    /\ UNCHANGED <<input, varsT>>

EndedS == pcS \in {"done", "returned", "raised"}

\* ==================================================== thesaurus_threads.py
\* look_up_line up to the loop: split the line into words.
LookUpEnter(t, w) ==
    [t EXCEPT !.st = "running", !.worker = w, !.starts = @ + 1,
              !.words = SplitWords(t.line)]

\* Mutant: the sentences of every word are added, not only of the first.
LookUpIterAllSentences(t) ==
    LET word == t.words[t.j + 1]
        page == web[word]
        n    == Budget(t.words)
        t1   == [t EXCEPT !.fetched = Append(@, word)]
        t2   == [t1 EXCEPT !.asked = Append(@, n)]
    IN  IF get_soup_raises(page) THEN [t1 EXCEPT !.st = "raised"]
        ELSE IF get_synonyms_raises(get_soup(page), n)
             THEN [t2 EXCEPT !.st = "raised"]
        ELSE [t2 EXCEPT
                !.synonyms = @ \o get_synonyms(word, get_soup(page), n),
                !.sentences =
                    @ \o get_sentences(word, get_soup(page), SENTENCES_NUM),
                !.j = @ + 1,
                !.st = IF t.j + 1 = Len(t.words) THEN "done" ELSE "running"]

\* One pass of the body of `for j, word in enumerate(words)` in look_up_line;
\* after the last word the function returns [line, synonyms, sentences].
LookUpIter(t) ==
    LET word == t.words[t.j + 1]
        page == web[word]
        n    == Budget(t.words)
        t1   == [t EXCEPT !.fetched = Append(@, word)]
        t2   == [t1 EXCEPT !.asked = Append(@, n)]
    IN  IF get_soup_raises(page) THEN [t1 EXCEPT !.st = "raised"]
        ELSE IF get_synonyms_raises(get_soup(page), n)
             THEN [t2 EXCEPT !.st = "raised"]
        ELSE [t2 EXCEPT
                !.synonyms = @ \o get_synonyms(word, get_soup(page), n),
                !.sentences =
                    IF t.j = 0
                    THEN @ \o get_sentences(word, get_soup(page), SENTENCES_NUM)
                    ELSE @,
                !.j = @ + 1,
                !.st = IF t.j + 1 = Len(t.words) THEN "done" ELSE "running"]

Idle(w) == \A i \in 1..Len(tasks) : ~(tasks[i].st = "running" /\ tasks[i].worker = w)

\* The work queue is first in, first out: the head is the first future that
\* is still queued.
QueueHead(i) ==
    /\ i \in 1..Len(tasks)
    /\ tasks[i].st = "queued"
    /\ \A h \in 1..(i - 1) : tasks[h].st # "queued"

\* Mutant: main does not test os.path.exists and reads the lines anyway.
T_StartNoCheck ==
    /\ pcT = "start"
    /\ EndedS
    /\ pcT' = "collect" /\ msgT' = msgT
    /\ linesT' = ReadLines(file)
    /\ tasks' = [i \in 1..Len(ReadLines(file)) |-> NewTask(ReadLines(file)[i])]
    /\ UNCHANGED <<nextT, words_dataT, savedT, completedT>>
    /\ UNCHANGED <<input, varsS>>

\* main up to executor.map: return when the file is missing, else read the
\* lines and submit one future per line.
T_Start ==
    /\ pcT = "start"
    /\ EndedS
    /\ IF ~fileExists
       THEN /\ pcT' = "returned" /\ msgT' = "WORDS_LIST_PATH is incorrect!"
            /\ UNCHANGED <<linesT, tasks>>
       ELSE /\ pcT' = "collect" /\ msgT' = msgT
            /\ linesT' = ReadLines(file)
            /\ tasks' = [i \in 1..Len(ReadLines(file)) |->
                            NewTask(ReadLines(file)[i])]
    /\ UNCHANGED <<nextT, words_dataT, savedT, completedT>>
    /\ UNCHANGED <<input, varsS>>

\* Mutant: the worker does not remove the future it takes from the queue,
\* so that another idle worker can take it too.
W_TakeNoDequeue(w) ==
    /\ pcT \in {"collect", "unwind"}
    /\ Idle(w)
    /\ \E i \in 1..Len(tasks) :
          /\ tasks[i].st \in {"queued", "running"}
          /\ tasks[i].starts <= 1
          /\ tasks' = [tasks EXCEPT ![i] = LookUpEnter(tasks[i], w)]
    /\ UNCHANGED <<pcT, linesT, nextT, words_dataT, savedT, msgT, completedT>>
    /\ UNCHANGED <<input, varsS>>

\* An idle worker thread takes the head of the work queue.
W_Take(w) ==
    /\ pcT \in {"collect", "unwind"}
    /\ Idle(w)
    /\ \E i \in 1..Len(tasks) :
          /\ QueueHead(i)
          /\ tasks' = [tasks EXCEPT ![i] = LookUpEnter(tasks[i], w)]
    /\ UNCHANGED <<pcT, linesT, nextT, words_dataT, savedT, msgT, completedT>>
    /\ UNCHANGED <<input, varsS>>

\* A worker thread looks up the next word of its line.
W_Word(w) ==
    /\ pcT \in {"collect", "unwind"}
    /\ \E i \in 1..Len(tasks) :
          /\ tasks[i].st = "running"
          /\ tasks[i].worker = w
          /\ tasks' = [tasks EXCEPT ![i] = LookUpIter(tasks[i])]
          /\ completedT' = IF tasks'[i].st = "running"
                           THEN completedT
                           ELSE Append(completedT, i)
    /\ UNCHANGED <<pcT, linesT, nextT, words_dataT, savedT, msgT>>
    /\ UNCHANGED <<input, varsS>>

\* Mutant: the results are taken in the order the futures finish
\* (as_completed) instead of the order they were submitted.
T_CollectAsCompleted ==
    /\ pcT = "collect"
    /\ nextT <= Len(completedT)
    /\ tasks[completedT[nextT]].st = "done"
    /\ words_dataT' = Append(words_dataT, Result(tasks[completedT[nextT]]))
    /\ nextT' = nextT + 1
    /\ UNCHANGED <<pcT, linesT, tasks, savedT, msgT, completedT>>
    /\ UNCHANGED <<input, varsS>>

\* `for result in results`: the iterator yields the result of the next
\* future in submission order, once that future has finished.
T_Collect ==
    /\ pcT = "collect"
    /\ nextT <= Len(tasks)
    /\ tasks[nextT].st = "done"
    /\ words_dataT' = Append(words_dataT, Result(tasks[nextT]))
    /\ nextT' = nextT + 1
    /\ UNCHANGED <<pcT, linesT, tasks, savedT, msgT, completedT>>
    /\ UNCHANGED <<input, varsS>>

\* The next future raised: the iterator re-raises in main and cancels the
\* futures still queued; main leaves the for loop with the exception.
T_Raise ==
    /\ pcT = "collect"
    /\ nextT <= Len(tasks)
    /\ tasks[nextT].st = "raised"
    /\ tasks' = [i \in 1..Len(tasks) |->
                    IF tasks[i].st = "queued"
                    THEN [tasks[i] EXCEPT !.st = "cancelled"]
                    ELSE tasks[i]]
    /\ pcT' = "unwind"
    /\ UNCHANGED <<linesT, nextT, words_dataT, savedT, msgT, completedT>>
    /\ UNCHANGED <<input, varsS>>

\* The with block ends with shutdown(wait=True): main goes on with the
\* exception once no look-up is running.
T_Unwind ==
    /\ pcT = "unwind"
    /\ \A i \in 1..Len(tasks) : tasks[i].st # "running"
    /\ pcT' = "raised"
    /\ UNCHANGED <<linesT, tasks, nextT, words_dataT, savedT, msgT, completedT>>
    /\ UNCHANGED <<input, varsS>>

\* Mutant: save_excel_file is called inside the for loop, after the first
\* result.
T_SaveInLoop ==
    /\ pcT = "collect"
    /\ nextT > Min(1, Len(tasks))
    /\ savedT' = Append(savedT, save_excel_file(words_dataT))
    /\ pcT' = "done"
    /\ UNCHANGED <<linesT, tasks, nextT, words_dataT, msgT, completedT>>
    /\ UNCHANGED <<input, varsS>>

\* Every result was appended: the with block ends and main calls
\* save_excel_file(words_data).
T_Save ==
    /\ pcT = "collect"
    /\ nextT > Len(tasks)
    /\ \A i \in 1..Len(tasks) : tasks[i].st \notin {"queued", "running"}
    /\ savedT' = Append(savedT, save_excel_file(words_dataT))
    /\ pcT' = "done"
    /\ UNCHANGED <<linesT, tasks, nextT, words_dataT, msgT, completedT>>
    /\ UNCHANGED <<input, varsS>>

EndedT == pcT \in {"done", "returned", "raised"}

Next ==
    \/ S_Start
    \/ S_NextLine
    \/ S_Word
    \/ S_Save
    \/ T_Start
    \/ \E w \in Workers : W_Take(w)
    \/ \E w \in Workers : W_Word(w)
    \/ T_Collect
    \/ T_Raise
    \/ T_Unwind
    \/ T_Save

Spec == Init /\ [][Next]_vars

\* The word splitter on every line of up to MaxSplitLen characters, the site
\* answering each word with a full page or not at all.
InitSplit ==
    /\ fileExists = TRUE
    /\ file \in { <<l>> : l \in SeqsUpTo(Alphabet, 1, MaxSplitLen) }
    /\ web \in [WordsOfFile(file) -> {FullPage, NetFail}]
    /\ InitScripts

SpecSplit == InitSplit /\ [][Next]_vars


\* =================================================================== claims
Tasks == { tasks[i] : i \in 1..Len(tasks) }
AllLookUps == Tasks \cup {curS}
Message == "WORDS_LIST_PATH is incorrect!"

\* C1: the words_data that main builds from executor.map is index-aligned
\* with the input lines whatever the order in which the look-ups finish:
\* its i-th record carries the i-th line, and once the loop has taken every
\* result it is as long as the list of lines.
C1_IndexAligned ==
    /\ Len(words_dataT) <= Len(linesT)
    /\ \A i \in 1..Len(words_dataT) : words_dataT[i][1] = linesT[i]
    /\ pcT = "done" =>
          /\ Len(words_dataT) = Len(linesT)
          /\ linesT = ReadLines(file)
          /\ Len(savedT[1].args) = Len(linesT)
          /\ \A i \in 1..Len(linesT) : savedT[1].args[i][1] = linesT[i]

\* The second line finished before the first, and main saved both in order.
C1_Witness ==
    /\ pcT = "done"
    /\ Len(linesT) = 2
    /\ linesT[1] # linesT[2]
    /\ completedT = <<2, 1>>

\* C2: a fetch that ends in a network failure, a non-200 response or
\* malformed markup never yields a normal [line, synonyms, sentences] record.
BadFetch(page) == ~page.net \/ page.status # 200 \/ page.childless # 0

C2_FetchFailureSurfaces ==
    \A t \in Tasks :
        (\E k \in 1..Len(t.fetched) : BadFetch(web[t.fetched[k]]))
            => t.st # "done"

\* C3: with the words file missing, both scripts print the message and
\* return: no get_soup call, no look-up started, no future submitted, no
\* save_excel_file call.
C3_MissingFile ==
    ~fileExists =>
        /\ tasks = <<>>
        /\ curS.st = "idle" /\ curS.fetched = <<>>
        /\ savedS = <<>> /\ savedT = <<>>
        /\ pcS \in {"start", "returned"} /\ pcT \in {"start", "returned"}
        /\ pcS = "returned" => msgS = Message
        /\ pcT = "returned" => msgT = Message

C3_Witness ==
    /\ ~fileExists
    /\ pcS = "returned" /\ pcT = "returned"
    /\ Len(ReadLines(file)) >= 1

\* C4: every variant of a line with v variants is asked for the same budget,
\* the integer nearest to SYNONYMS_NUM / v (a tie goes to the even one; 3 / 2
\* gives 2), whatever earlier variants returned, so the line's result holds
\* at most v * budget synonyms.
RoundsTo(n, num, den) ==
    /\ 2 * num - den <= 2 * n * den
    /\ 2 * n * den <= 2 * num + den
    /\ (2 * n * den = 2 * num - den \/ 2 * n * den = 2 * num + den)
          => n % 2 = 0

C4_BudgetPerVariant ==
    \A t \in AllLookUps :
        LET v == Len(t.words)
        IN  /\ \A k \in 1..Len(t.asked) :
                  /\ RoundsTo(t.asked[k], SYNONYMS_NUM, v)
                  /\ (SYNONYMS_NUM = 3 /\ v = 2) => t.asked[k] = 2
            /\ t.st = "done" =>
                  /\ Len(t.asked) = v
                  /\ Len(t.synonyms) <= v * t.asked[1]

\* Two variants, two synonyms each: more than SYNONYMS_NUM in the result.
C4_Witness ==
    \E t \in Tasks :
        /\ t.st = "done"
        /\ Len(t.words) = 2
        /\ t.asked = <<2, 2>>
        /\ Len(t.synonyms) > SYNONYMS_NUM

\* C5: the sentences of a line's result are the first SENTENCES_NUM sentences
\* of the page of its first variant and of no other page; the synonyms are
\* the synonyms of every variant, concatenated in variant order.
RECURSIVE SynsOfVariants(_, _, _)
SynsOfVariants(words, upto, n) ==
    IF upto = 0 THEN <<>>
    ELSE SynsOfVariants(words, upto - 1, n)
         \o [k \in 1..Min(n, web[words[upto]].synDivs) |->
                SynText(words[upto], k)]

C5_FirstVariantSentences ==
    \A t \in Tasks :
        t.j >= 1 =>
            LET first == web[t.words[1]]
                count == IF first.sentDiv
                         THEN Min(SENTENCES_NUM, first.ps) ELSE 0
            IN  /\ t.sentences = [k \in 1..count |-> SentText(t.words[1], k)]
                /\ t.synonyms = SynsOfVariants(t.words, t.j, Budget(t.words))

\* A line of two different words, both pages with sentences.
C5_Witness ==
    \E t \in Tasks :
        /\ t.st = "done"
        /\ Len(t.words) = 2
        /\ t.words[1] # t.words[2]
        /\ web[t.words[2]].sentDiv /\ web[t.words[2]].ps >= 1
        /\ Len(t.sentences) = SENTENCES_NUM
        /\ Len(t.synonyms) >= 3


\* C6 (as amended): the word splitter drops no piece (a line with r runs of
\* separators gives r + 1 variants); a variant is empty only if the line
\* starts or ends with a separator or holds two separators with nothing but
\* whitespace, or nothing at all, between them; and the variants, the empty
\* ones too, are passed to get_soup one by one in order, none is left out.
IsSep(line, i) == line[i] \in WORDS_SEPARATORS

Runs(line) ==
    Cardinality({ i \in 1..Len(line) :
                    IsSep(line, i) /\ (i = 1 \/ ~IsSep(line, i - 1)) })

EdgeSeparator(line) == IsSep(line, 1) \/ IsSep(line, Len(line))

AdjacentSeparators(line) ==
    \E i \in 1..(Len(line) - 1) : IsSep(line, i) /\ IsSep(line, i + 1)

BlankBetweenSeparators(line) ==
    \E i, k \in 1..Len(line) :
        /\ i < k
        /\ IsSep(line, i) /\ IsSep(line, k)
        /\ \A m \in (i + 1)..(k - 1) : line[m] \in Whitespace

Entered == { t \in AllLookUps : t.starts >= 1 }

PassedOn(t) ==
    /\ Len(t.fetched) <= Len(t.words)
    /\ \A k \in 1..Len(t.fetched) : t.fetched[k] = t.words[k]
    /\ t.st = "running" => Len(t.fetched) = t.j
    /\ t.st = "done" => t.fetched = t.words

C6_SplitterAmended ==
    \A t \in Entered :
        /\ Len(t.words) = Runs(t.line) + 1
        /\ (\E k \in 1..Len(t.words) : t.words[k] = <<>>)
              => (EdgeSeparator(t.line) \/ BlankBetweenSeparators(t.line))
        /\ PassedOn(t)

\* C6 as stated: an empty variant only if the line has adjacent separators
\* or starts or ends with a separator.
C6_SplitterAsStated ==
    \A t \in Entered :
        /\ Len(t.words) = Runs(t.line) + 1
        /\ (\E k \in 1..Len(t.words) : t.words[k] = <<>>)
              => (EdgeSeparator(t.line) \/ AdjacentSeparators(t.line))
        /\ PassedOn(t)

\* An empty variant in the middle of a line was fetched.
C6_Witness ==
    \E t \in Tasks :
        /\ t.st = "done"
        /\ Len(t.words) = 3
        /\ t.words[2] = <<>>
        /\ t.fetched[2] = <<>>
        /\ ~EdgeSeparator(t.line)

\* C7: on the same file and the same site both scripts hand save_excel_file
\* the same words_data, whatever the interleaving of the worker threads, and
\* when a fetch raises neither of them calls save_excel_file.
C7_SameAsSequential ==
    (EndedS /\ EndedT) =>
        /\ savedT = savedS
        /\ pcT = pcS
        /\ pcT = "raised" => (savedT = <<>> /\ savedS = <<>>)

\* Both scripts saved two lines although the second look-up finished first.
C7_Witness ==
    /\ pcS = "done" /\ pcT = "done"
    /\ Len(savedT) = 1 /\ Len(savedT[1].args) = 2
    /\ Len(savedT[1].args[2][2]) > SYNONYMS_NUM
    /\ completedT = <<2, 1>>

\* C8: save_excel_file is called at most once, and only with the complete
\* words_data: every future has returned its record and main has appended
\* it; it is not called when a look-up raised.
C8_SaveOnceComplete ==
    /\ Len(savedT) <= 1
    /\ savedT # <<>> =>
          /\ \A i \in 1..Len(tasks) : tasks[i].st = "done"
          /\ Len(tasks) = Len(ReadLines(file))
          /\ savedT[1].args = [i \in 1..Len(tasks) |-> Result(tasks[i])]
    /\ (\E i \in 1..Len(tasks) : tasks[i].st \in {"raised", "cancelled"})
          => savedT = <<>>

C8_Witness ==
    /\ Len(savedT) = 1
    /\ Len(tasks) = 2
    /\ tasks[1].worker # tasks[2].worker

C9_State ==
    /\ \A t \in Tasks : t.starts <= 1
    /\ \A t \in Tasks : (t.starts = 1) <=> (t.worker \in Workers)
    /\ \A i, k \in 1..Len(tasks) :
          (i # k /\ tasks[i].st = "running" /\ tasks[k].st = "running")
              => tasks[i].worker # tasks[k].worker
    /\ pcT = "done" => \A t \in Tasks : t.starts = 1 /\ t.st = "done"
    /\ \A t \in Tasks : t.st = "cancelled" => (t.starts = 0 /\ t.fetched = <<>>)

C9_Step ==
    /\ \A i \in 1..Len(tasks) :
          /\ tasks[i].st = "done" => tasks'[i] = tasks[i]
          /\ tasks[i].starts = 1 => tasks'[i].worker = tasks[i].worker
    /\ \A i \in 1..Len(words_dataT) : words_dataT'[i] = words_dataT[i]

C10_ColumnsDisjoint ==
    \A s \in 1..Len(savedT) :
        \A r \in 1..Len(savedT[s].args) :
            LET rec == savedT[s].args[r]
                row == savedT[s].rows[r + 1]
            IN  /\ \A i \in 1..Len(rec[2]) :
                      /\ i + 1 <= SYNONYMS_NUM + 1
                      /\ row[i + 1] = rec[2][i]
                /\ \A i \in 1..Len(rec[3]) :
                      /\ i + 1 + SYNONYMS_NUM <= SYNONYMS_NUM + SENTENCES_NUM + 1
                      /\ row[i + 1 + SYNONYMS_NUM] = rec[3][i]

====
